---- MODULE Spec2Model ----
(***************************************************************************)
(* A model of blockdev (src/src/lib.rs): the parsing of an lsblk JSON      *)
(* document into a BlockDevices collection and the queries over it.        *)
(*                                                                         *)
(* JSON values are tagged records [k |-> kind, v |-> payload]; an object   *)
(* is the sequence of its <<key, value>> members in document order.        *)
(* A size string is a sequence of one-character strings, so that trimming, *)
(* splitting and case mapping are computed character by character.         *)
(* A u64 is the sequence of its binary digits, most significant first,     *)
(* without leading zeros (zero is the empty sequence); an f64 is           *)
(* [neg, m, e], standing for (-1)^neg * m * 2^e with m such a sequence of  *)
(* at most 53 digits.                                                      *)
(* A reference to a device is the path to it: the positions to follow,     *)
(* from the list it was looked up in, through the children lists.          *)
(***************************************************************************)
EXTENDS Integers, Sequences, FiniteSets, TLC

VARIABLES input, doc, pc, parsed, sysOut, nonSysOut, ser, reparsed, call, iter, lsblk, got

vars == <<input, doc, pc, parsed, sysOut, nonSysOut, ser, reparsed, call, iter, lsblk, got>>

(***************************************************************************)
(* Bounds of the model.                                                    *)
(***************************************************************************)
\* longest run of digits before the decimal point of a size string
MaxIntDigits == 5
\* longest run of digits after the decimal point of a size string
MaxFracDigits == 1
\* most top-level devices of a document
MaxTop == 2
\* most elements of a mount list
MaxMounts == 2
\* most times an iterator over children is started again
MaxRestarts == 1
\* most bytes of the device name in standard output, and of standard error
MaxBytes == 2

(***************************************************************************)
(* Widths of the number types.                                             *)
(***************************************************************************)
\* significant binary digits of an f64
MantissaBits == 53
\* binary digits of a u64
U64Bits == 64
\* U+FFFD REPLACEMENT CHARACTER, which from_utf8_lossy puts for invalid bytes
ReplacementChar == 65533

(***************************************************************************)
(* Binary arithmetic on digit sequences.                                   *)
(***************************************************************************)
Zeros(n) == [i \in 1..n |-> 0]

Ones(n) == [i \in 1..n |-> 1]

\* without its leading zeros
Strip(b) ==
    LET ones == {i \in 1..Len(b) : b[i] = 1}
    IN  IF ones = {} THEN <<>>
        ELSE SubSeq(b, CHOOSE i \in ones : \A j \in ones : i <= j, Len(b))

\* the w low binary digits of n
FixedBits(n, w) == [i \in 1..w |-> (n \div 2^(w - i)) % 2]

\* the binary digits of n < 2^30
NatBits(n) == Strip(FixedBits(n, 30))

\* b + 1
Inc(b) ==
    LET zeros == {i \in 1..Len(b) : b[i] = 0}
    IN  IF zeros = {} THEN <<1>> \o Zeros(Len(b))
        ELSE LET z == CHOOSE i \in zeros : \A j \in zeros : j <= i
             IN  [i \in 1..Len(b) |-> IF i < z THEN b[i] ELSE IF i = z THEN 1 ELSE 0]

RECURSIVE Pow10(_)
Pow10(d) == IF d = 0 THEN 1 ELSE 10 * Pow10(d - 1)

\* the first 10 * n binary digits of the fraction r / D, 0 <= r < D, ten at a time
RECURSIVE FracBits(_, _, _)
FracBits(r, D, n) ==
    IF n = 0 THEN <<>>
    ELSE FixedBits((r * 1024) \div D, 10) \o FracBits((r * 1024) % D, D, n - 1)

\* what is left of r / D after its first 10 * n binary digits
RECURSIVE FracRem(_, _, _)
FracRem(r, D, n) == IF n = 0 THEN r ELSE FracRem((r * 1024) % D, D, n - 1)

U64Max == Ones(U64Bits)

F64Zero == [neg |-> FALSE, m |-> <<>>, e |-> 0]

\* a mantissa that rounding carried into one more digit loses its last digit
Renormalize(m, e) ==
    IF Len(m) > MantissaBits
    THEN [neg |-> FALSE, m |-> SubSeq(m, 1, MantissaBits), e |-> e + 1]
    ELSE [neg |-> FALSE, m |-> m, e |-> e]

\* S has no leading zero
RoundStripped(S, sticky, elast) ==
    IF Len(S) = 0 THEN F64Zero
    ELSE IF Len(S) <= MantissaBits THEN [neg |-> FALSE, m |-> S, e |-> elast]
    ELSE IF /\ S[MantissaBits + 1] = 1
            /\ \/ sticky
               \/ \E i \in (MantissaBits + 2)..Len(S) : S[i] = 1
               \/ S[MantissaBits] = 1
    THEN Renormalize(Inc(SubSeq(S, 1, MantissaBits)), elast + (Len(S) - MantissaBits))
    ELSE Renormalize(SubSeq(S, 1, MantissaBits), elast + (Len(S) - MantissaBits))

\* Round to nearest, ties to even: the f64 nearest to bits * 2^elast (plus a
\* nonzero remainder below the last digit when sticky).
RoundToF64(bits, sticky, elast) == RoundStripped(Strip(bits), sticky, elast)

(***************************************************************************)
(* Characters.                                                             *)
(***************************************************************************)
IsAsciiDigit(c) == c \in {"0", "1", "2", "3", "4", "5", "6", "7", "8", "9"}

DigitVal(c) ==
    CASE c = "0" -> 0 [] c = "1" -> 1 [] c = "2" -> 2 [] c = "3" -> 3
      [] c = "4" -> 4 [] c = "5" -> 5 [] c = "6" -> 6 [] c = "7" -> 7
      [] c = "8" -> 8 [] c = "9" -> 9

IsWhitespace(c) == c \in {" ", "\t"}

\* char::to_uppercase on the letters of the model's alphabet
ToUpperChar(c) ==
    CASE c = "b" -> "B" [] c = "k" -> "K" [] c = "i" -> "I" [] c = "m" -> "M"
      [] c = "g" -> "G" [] c = "t" -> "T" [] c = "p" -> "P" [] c = "x" -> "X"
      [] c = "e" -> "E" [] OTHER -> c

to_uppercase(s) == [i \in 1..Len(s) |-> ToUpperChar(s[i])]

RECURSIVE TrimStart(_)
TrimStart(s) == IF s # <<>> /\ IsWhitespace(Head(s)) THEN TrimStart(Tail(s)) ELSE s

RECURSIVE TrimEnd(_)
TrimEnd(s) ==
    IF s # <<>> /\ IsWhitespace(s[Len(s)]) THEN TrimEnd(SubSeq(s, 1, Len(s) - 1)) ELSE s

trim(s) == TrimEnd(TrimStart(s))

None == [k |-> "None"]

Some(x) == [k |-> "Some", v |-> x]

(***************************************************************************)
(* str::parse::<f64> on a string of digits and decimal points.             *)
(***************************************************************************)
RECURSIVE DecimalValue(_)
DecimalValue(ds) ==
    IF ds = <<>> THEN 0 ELSE 10 * DecimalValue(SubSeq(ds, 1, Len(ds) - 1)) + DigitVal(ds[Len(ds)])

\* ten-digit groups generated after the point before rounding: more than the
\* mantissa and the leading zeros of the smallest fraction take
FracGroups == (MantissaBits + 4 * (MaxFracDigits + 2)) \div 10 + 1

\* the f64 nearest to ip.fp, both runs of digits
DecimalToF64(ip, f, D) ==
    Some(RoundToF64(NatBits(DecimalValue(ip)) \o FracBits(f, D, FracGroups),
                    FracRem(f, D, FracGroups) # 0, -(10 * FracGroups)))

\* s split at its decimal point, at position p
ParseF64At(s, p) ==
    DecimalToF64(SubSeq(s, 1, p - 1), DecimalValue(SubSeq(s, p + 1, Len(s))),
                 Pow10(Len(s) - p))

ParseF64(s) ==
    LET dots == {i \in 1..Len(s) : s[i] = "."}
    IN  IF Cardinality(dots) > 1 \/ Len(s) - Cardinality(dots) = 0 THEN None
        ELSE IF dots = {} THEN DecimalToF64(s, 0, 1)
        ELSE ParseF64At(s, CHOOSE i \in dots : TRUE)

\* `multiplier as f64`: exact, every multiplier being a power of two
U64AsF64(u) == RoundToF64(u, FALSE, 0)

\* f64 multiplication by a power of two (m = <<1, 0, ..., 0>>): exact
F64Mul(x, y) ==
    IF x.m = <<>> \/ y.m = <<>> THEN F64Zero
    ELSE [neg |-> x.neg # y.neg, m |-> x.m, e |-> x.e + y.e + (Len(y.m) - 1)]

\* a conversion that rounds to the nearest integer, halves upward, where `as u64` cuts
F64AsU64_rounding(x) ==
    IF x.neg \/ x.m = <<>> THEN <<>>
    ELSE IF x.e >= 0
         THEN IF Len(x.m) + x.e > U64Bits THEN U64Max ELSE x.m \o Zeros(x.e)
    ELSE IF -x.e > Len(x.m) THEN <<>>
    ELSE IF x.m[Len(x.m) + x.e + 1] = 1 THEN Inc(SubSeq(x.m, 1, Len(x.m) + x.e))
    ELSE SubSeq(x.m, 1, Len(x.m) + x.e)

\* `f as u64`: truncation toward zero, saturating at both ends of the range
F64AsU64(x) ==
    IF x.neg \/ x.m = <<>> THEN <<>>
    ELSE IF x.e >= 0
         THEN IF Len(x.m) + x.e > U64Bits THEN U64Max ELSE x.m \o Zeros(x.e)
    ELSE IF -x.e >= Len(x.m) THEN <<>>
    ELSE SubSeq(x.m, 1, Len(x.m) + x.e)

(***************************************************************************)
(* parse_size_string                                                       *)
(***************************************************************************)
\* a match whose last arm takes any other suffix for a count of bytes
Multiplier_any_suffix(suffix) ==
    LET u == to_uppercase(suffix)
    IN  CASE u \in {<<"K">>, <<"K", "B">>, <<"K", "I", "B">>} -> Some(<<1>> \o Zeros(10))
          [] u \in {<<"M">>, <<"M", "B">>, <<"M", "I", "B">>} -> Some(<<1>> \o Zeros(20))
          [] u \in {<<"G">>, <<"G", "B">>, <<"G", "I", "B">>} -> Some(<<1>> \o Zeros(30))
          [] u \in {<<"T">>, <<"T", "B">>, <<"T", "I", "B">>} -> Some(<<1>> \o Zeros(40))
          [] u \in {<<"P">>, <<"P", "B">>, <<"P", "I", "B">>} -> Some(<<1>> \o Zeros(50))
          [] OTHER -> Some(<<1>>)

\* the multiplier of a unit suffix, a u64
Multiplier(suffix) ==
    LET u == to_uppercase(suffix)
    IN  CASE u \in {<<>>, <<"B">>} -> Some(<<1>>)
          [] u \in {<<"K">>, <<"K", "B">>, <<"K", "I", "B">>} -> Some(<<1>> \o Zeros(10))
          [] u \in {<<"M">>, <<"M", "B">>, <<"M", "I", "B">>} -> Some(<<1>> \o Zeros(20))
          [] u \in {<<"G">>, <<"G", "B">>, <<"G", "I", "B">>} -> Some(<<1>> \o Zeros(30))
          [] u \in {<<"T">>, <<"T", "B">>, <<"T", "I", "B">>} -> Some(<<1>> \o Zeros(40))
          [] u \in {<<"P">>, <<"P", "B">>, <<"P", "I", "B">>} -> Some(<<1>> \o Zeros(50))
          [] OTHER -> None

\* the last line: the product, converted
ScaledSize(num, multiplier) ==
    IF num = None THEN None
    ELSE IF multiplier = None THEN None
    ELSE Some(F64AsU64(F64Mul(num.v, U64AsF64(multiplier.v))))

\* s split where the numeric part ends
SplitSize(s, idx) ==
    ScaledSize(ParseF64(SubSeq(s, 1, idx - 1)), Multiplier(trim(SubSeq(s, idx, Len(s)))))

\* s.find(|c| !c.is_ascii_digit() && c != '.').unwrap_or(s.len()), from 1
NumericEnd(s) ==
    LET stops == {i \in 1..Len(s) : ~IsAsciiDigit(s[i]) /\ s[i] # "."}
    IN  IF stops = {} THEN Len(s) + 1 ELSE CHOOSE i \in stops : \A j \in stops : i <= j

TrimmedSize(s) == IF s = <<>> THEN None ELSE SplitSize(s, NumericEnd(s))

parse_size_string(str) == TrimmedSize(trim(str))

(***************************************************************************)
(* JSON values (serde_json::Value) and results.                            *)
(***************************************************************************)
JNull == [k |-> "null"]

JBool(b) == [k |-> "bool", v |-> b]

JStr(s) == [k |-> "str", v |-> s]

JArr(xs) == [k |-> "arr", v |-> xs]

JObj(members) == [k |-> "obj", v |-> members]

\* serde_json::Number: N::PosInt(u64), N::NegInt(i64) or N::Float(f64)
JPosInt(u) == [k |-> "num", v |-> [n |-> "PosInt", neg |-> FALSE, m |-> u, e |-> 0]]

JNegInt(mag) == [k |-> "num", v |-> [n |-> "NegInt", neg |-> TRUE, m |-> mag, e |-> 0]]

JFloat(f) == [k |-> "num", v |-> [n |-> "Float", neg |-> f.neg, m |-> f.m, e |-> f.e]]

Ok(x) == [ok |-> TRUE, v |-> x]

Err(e) == [ok |-> FALSE, err |-> e]

\* Number::as_u64
as_u64(n) == IF n.n = "PosInt" THEN Some(n.m) ELSE None

\* Number::as_f64
as_f64(n) ==
    IF n.n = "Float" THEN Some([neg |-> n.neg, m |-> n.m, e |-> n.e])
    ELSE Some([RoundToF64(n.m, FALSE, 0) EXCEPT !.neg = n.neg])

(***************************************************************************)
(* The field deserializers.                                                *)
(***************************************************************************)
\* Option::ok_or_else
ok_or_else(opt, e) == IF opt # None THEN Ok(opt.v) ELSE Err(e)

\* Option::map(|f| f as u64)
MapAsU64(opt) == IF opt # None THEN Some(F64AsU64(opt.v)) ELSE None

\* Option::or_else
or_else(opt, other) == IF opt # None THEN opt ELSE other

deserialize_size(value) ==
    CASE value.k = "num" ->
           ok_or_else(or_else(as_u64(value.v), MapAsU64(as_f64(value.v))),
                      "invalid numeric size")
      [] value.k = "str" -> ok_or_else(parse_size_string(value.v), "invalid size string")
      [] OTHER -> Err("size must be a number or string")

\* serde_json::from_value::<Option<String>>
OptionStringFromValue(value) ==
    CASE value.k = "null" -> Ok(None)
      [] value.k = "str" -> Ok(Some(value.v))
      [] OTHER -> Err("invalid type: expected a string")

\* Ok(vec![single])
VecOfSingle(single) == IF single.ok THEN Ok(<<single.v>>) ELSE single

\* a normalization that drops a single null where the code keeps it as None
deserialize_mountpoints_null_dropped(value) ==
    IF value.k = "arr"
    THEN IF \E i \in 1..Len(value.v) : ~OptionStringFromValue(value.v[i]).ok
         THEN Err("invalid type: expected a string")
         ELSE Ok([i \in 1..Len(value.v) |-> OptionStringFromValue(value.v[i]).v])
    ELSE IF value.k = "null" THEN Ok(<<>>)
    ELSE VecOfSingle(OptionStringFromValue(value))

\* a reading that leaves the null elements of a list out
deserialize_mountpoints_list_nulls_removed(value) ==
    IF value.k = "arr"
    THEN IF \E i \in 1..Len(value.v) : ~OptionStringFromValue(value.v[i]).ok
         THEN Err("invalid type: expected a string")
         ELSE LET F[i \in 0..Len(value.v)] ==
                      IF i = 0 THEN <<>>
                      ELSE IF value.v[i].k = "null" THEN F[i - 1]
                      ELSE Append(F[i - 1], OptionStringFromValue(value.v[i]).v)
              IN  Ok(F[Len(value.v)])
    ELSE VecOfSingle(OptionStringFromValue(value))

deserialize_mountpoints(value) ==
    IF value.k = "arr"
    THEN IF \E i \in 1..Len(value.v) : ~OptionStringFromValue(value.v[i]).ok
         THEN Err("invalid type: expected a string")
         ELSE Ok([i \in 1..Len(value.v) |-> OptionStringFromValue(value.v[i]).v])
    ELSE VecOfSingle(OptionStringFromValue(value))

\* DeviceType: the variant each label names, rename_all = "lowercase"
Variants ==
    [disk |-> "Disk", part |-> "Part", loop |-> "Loop", raid1 |-> "Raid1",
     raid5 |-> "Raid5", raid6 |-> "Raid6", raid0 |-> "Raid0", raid10 |-> "Raid10",
     lvm |-> "Lvm", crypt |-> "Crypt", rom |-> "Rom", other |-> "Other"]

\* a deserializer without the catch-all: a label that names no variant fails
DeviceTypeFromValue_strict(value) ==
    IF value.k # "str" THEN Err("invalid type: expected a variant of DeviceType")
    ELSE IF value.v \in DOMAIN Variants THEN Ok(Variants[value.v])
    ELSE Err("unknown variant")

\* DeviceType, the derived Deserialize: #[serde(other)] takes every other label
DeviceTypeFromValue(value) ==
    IF value.k # "str" THEN Err("invalid type: expected a variant of DeviceType")
    ELSE IF value.v \in DOMAIN Variants THEN Ok(Variants[value.v])
    ELSE Ok("Other")

\* DeviceType, the derived Serialize: the label of the variant
DeviceTypeToValue(kind) == JStr(CHOOSE label \in DOMAIN Variants : Variants[label] = kind)

StringFromValue(value) ==
    IF value.k = "str" THEN Ok(value.v) ELSE Err("invalid type: expected a string")

BoolFromValue(value) ==
    IF value.k = "bool" THEN Ok(value.v) ELSE Err("invalid type: expected a boolean")

(***************************************************************************)
(* BlockDevice: the derived Deserialize.                                   *)
(***************************************************************************)
Fields ==
    <<"name", "maj_min", "rm", "size", "ro", "device_type", "mountpoints", "children">>

\* the field a member's key names; the mount field has an alias
FieldOf(key) ==
    CASE key = "name" -> "name"
      [] key = "maj:min" -> "maj_min"
      [] key = "rm" -> "rm"
      [] key = "size" -> "size"
      [] key = "ro" -> "ro"
      [] key = "type" -> "device_type"
      [] key \in {"mountpoints", "mountpoint"} -> "mountpoints"
      [] key = "children" -> "children"
      [] OTHER -> "__ignore"

RECURSIVE BlockDeviceFromValue(_)

\* the least position of a non-empty set of positions
First(positions) == CHOOSE i \in positions : \A j \in positions : i <= j

\* the greatest
Last(positions) == CHOOSE i \in positions : \A j \in positions : j <= i

\* a collection that leaves out the elements that failed
VecCollect_failed_skipped(rs) ==
    LET kept == SelectSeq([i \in 1..Len(rs) |-> rs[i]], LAMBDA r : r.ok)
    IN  Ok([i \in 1..Len(kept) |-> kept[i].v])

\* Vec<BlockDevice>, once every element is read: the first failure, or them all
VecCollect(rs) ==
    LET failed == {i \in 1..Len(rs) : ~rs[i].ok}
    IN  IF failed = {} THEN Ok([i \in 1..Len(rs) |-> rs[i].v]) ELSE rs[First(failed)]

\* Vec<BlockDevice>: element by element
VecBlockDeviceFromValue(elems) ==
    VecCollect([i \in 1..Len(elems) |-> BlockDeviceFromValue(elems[i])])

OkSome(r) == IF r.ok THEN Ok(Some(r.v)) ELSE r

\* a reading that takes an empty list for no list
ChildrenFromValue_empty_absent(value) ==
    CASE value.k = "null" -> Ok(None)
      [] value.k = "arr" -> IF value.v = <<>> THEN Ok(None)
                            ELSE OkSome(VecBlockDeviceFromValue(value.v))
      [] OTHER -> Err("invalid type: expected a sequence")

\* Option<Vec<BlockDevice>>
ChildrenFromValue(value) ==
    CASE value.k = "null" -> Ok(None)
      [] value.k = "arr" -> OkSome(VecBlockDeviceFromValue(value.v))
      [] OTHER -> Err("invalid type: expected a sequence")

\* the value of a member; that of a member no field is named for is skipped
FieldFromValue(field, value) ==
    CASE field \in {"name", "maj_min"} -> StringFromValue(value)
      [] field \in {"rm", "ro"} -> BoolFromValue(value)
      [] field = "size" -> deserialize_size(value)
      [] field = "device_type" -> DeviceTypeFromValue(value)
      [] field = "mountpoints" -> deserialize_mountpoints(value)
      [] field = "children" -> ChildrenFromValue(value)
      [] OTHER -> Ok(None)

\* the struct once every member is read: defaults and missing fields
Build(acc) ==
    LET missing == {i \in 1..6 : acc[Fields[i]] = None}
    IN  IF missing # {} THEN Err("missing field")
        ELSE Ok([name |-> acc["name"].v, maj_min |-> acc["maj_min"].v,
                 rm |-> acc["rm"].v, size |-> acc["size"].v, ro |-> acc["ro"].v,
                 device_type |-> acc["device_type"].v,
                 mountpoints |-> IF acc["mountpoints"] = None THEN <<>>
                                 ELSE acc["mountpoints"].v,
                 children |-> IF acc["children"] = None THEN None
                              ELSE acc["children"].v])

\* a visit that never finds a field given twice
FieldGivenBefore_unchecked(members, i) == FALSE

\* the member at position i names a field that an earlier member has given
FieldGivenBefore(members, i) ==
    /\ FieldOf(members[i][1]) # "__ignore"
    /\ \E j \in 1..(i - 1) : FieldOf(members[j][1]) = FieldOf(members[i][1])

\* what the members have given for a field
Given(members, rs, field) ==
    LET at == {i \in 1..Len(members) : FieldOf(members[i][1]) = field}
    IN  IF at = {} THEN None ELSE Some(rs[Last(at)].v)

\* visit_map, rs being what reading each member's value gives: the visit ends
\* at the first member that repeats a field or whose value fails
MapCollect(members, rs) ==
    LET failed == {i \in 1..Len(members) : FieldGivenBefore(members, i) \/ ~rs[i].ok}
    IN  IF failed = {}
        THEN Build([f \in {Fields[i] : i \in 1..Len(Fields)} |-> Given(members, rs, f)])
        ELSE IF FieldGivenBefore(members, First(failed)) THEN Err("duplicate field")
        ELSE rs[First(failed)]

\* visit_map: the members in document order
VisitMap(members) ==
    MapCollect(members,
               [i \in 1..Len(members) |-> FieldFromValue(FieldOf(members[i][1]), members[i][2])])

\* visit_seq, rs being what reading each element gives: the first failure, a
\* sequence that ends before a field without a default, or one that goes on
\* after the last field
SeqCollect(elems, rs) ==
    LET failed == {i \in DOMAIN rs : ~rs[i].ok}
    IN  IF failed # {} THEN rs[First(failed)]
        ELSE IF Len(elems) < 6 THEN Err("invalid length")
        ELSE IF Len(elems) > Len(Fields) THEN Err("trailing characters")
        ELSE Build([f \in {Fields[i] : i \in 1..Len(Fields)} |->
                       IF \E i \in DOMAIN rs : Fields[i] = f
                       THEN Some(rs[CHOOSE i \in DOMAIN rs : Fields[i] = f].v)
                       ELSE None])

\* visit_seq: the fields by position
VisitSeq(elems) ==
    SeqCollect(elems,
               [i \in {j \in 1..Len(Fields) : j <= Len(elems)} |->
                    FieldFromValue(Fields[i], elems[i])])

BlockDeviceFromValue(value) ==
    CASE value.k = "obj" -> VisitMap(value.v)
      [] value.k = "arr" -> VisitSeq(value.v)
      [] OTHER -> Err("invalid type: expected struct BlockDevice")

\* the blockdevices member is read, and was given once
BlockDevicesCollect(r, given) ==
    IF ~r.ok THEN r
    ELSE IF given > 1 THEN Err("duplicate field")
    ELSE Ok([blockdevices |-> r.v])

\* Vec<BlockDevice> from any value
VecFromValue(value) ==
    IF value.k # "arr" THEN Err("invalid type: expected a sequence")
    ELSE VecBlockDeviceFromValue(value.v)

\* BlockDevices, the derived Deserialize: visit_map
BlockDevicesVisitMap(members) ==
    LET at == {i \in 1..Len(members) : members[i][1] = "blockdevices"}
    IN  IF at = {} THEN Err("missing field")
        ELSE BlockDevicesCollect(VecFromValue(members[First(at)][2]), Cardinality(at))

\* BlockDevices, the derived Deserialize: visit_seq
BlockDevicesVisitSeq(elems) ==
    IF Len(elems) # 1 THEN Err("invalid length")
    ELSE BlockDevicesCollect(VecFromValue(elems[1]), 1)

\* parse_lsblk: serde_json::from_str::<BlockDevices>
parse_lsblk(json_data) ==
    CASE json_data.k = "obj" -> BlockDevicesVisitMap(json_data.v)
      [] json_data.k = "arr" -> BlockDevicesVisitSeq(json_data.v)
      [] OTHER -> Err("invalid type: expected struct BlockDevices")

(***************************************************************************)
(* The derived Serialize.                                                  *)
(***************************************************************************)
\* a serializer that writes an absent path as the empty string
OptionStringToValue_empty(m) == IF m = None THEN JStr("") ELSE JStr(m.v)

OptionStringToValue(m) == IF m = None THEN JNull ELSE JStr(m.v)

RECURSIVE BlockDeviceToValue(_)
BlockDeviceToValue(d) ==
    JObj(<< <<"name", JStr(d.name)>>,
            <<"maj:min", JStr(d.maj_min)>>,
            <<"rm", JBool(d.rm)>>,
            <<"size", JPosInt(d.size)>>,
            <<"ro", JBool(d.ro)>>,
            <<"type", DeviceTypeToValue(d.device_type)>>,
            <<"mountpoints",
              JArr([i \in 1..Len(d.mountpoints) |-> OptionStringToValue(d.mountpoints[i])])>>,
            <<"children",
              IF d.children = None THEN JNull
              ELSE JArr([i \in 1..Len(d.children.v) |-> BlockDeviceToValue(d.children.v[i])])>> >>)

\* serde_json::to_string(&devices)
to_string(devices) ==
    JObj(<< <<"blockdevices",
              JArr([i \in 1..Len(devices.blockdevices) |->
                        BlockDeviceToValue(devices.blockdevices[i])])>> >>)

(***************************************************************************)
(* The queries.                                                            *)
(***************************************************************************)
has_children(d) == d.children # None /\ d.children.v # <<>>

\* an iterator that goes on, after the children, to the children of the first
children_iter_below(d) ==
    IF d.children = None THEN <<>>
    ELSE IF d.children.v = <<>> THEN <<>>
    ELSE IF d.children.v[1].children = None THEN d.children.v
    ELSE d.children.v \o d.children.v[1].children.v

children_iter(d) == IF d.children = None THEN <<>> ELSE d.children.v

\* a collection of the paths with no path twice
active_mountpoints_distinct(d) ==
    LET F[i \in 0..Len(d.mountpoints)] ==
            IF i = 0 THEN <<>>
            ELSE IF d.mountpoints[i] = None THEN F[i - 1]
            ELSE IF \E j \in 1..(i - 1) : d.mountpoints[j] = d.mountpoints[i] THEN F[i - 1]
            ELSE Append(F[i - 1], d.mountpoints[i].v)
    IN  F[Len(d.mountpoints)]

\* mountpoints.iter().filter_map(|m| m.as_deref()).collect()
active_mountpoints(d) ==
    LET F[i \in 0..Len(d.mountpoints)] ==
            IF i = 0 THEN <<>>
            ELSE IF d.mountpoints[i] = None THEN F[i - 1]
            ELSE Append(F[i - 1], d.mountpoints[i].v)
    IN  F[Len(d.mountpoints)]

\* a test for any entry at all, null or not
is_mounted_any_entry(d) == d.mountpoints # <<>>

is_mounted(d) == \E i \in 1..Len(d.mountpoints) : d.mountpoints[i] # None

\* a test that looks at the device and its children, and no deeper
is_system_children_only(d) ==
    IF \E i \in 1..Len(d.mountpoints) : d.mountpoints[i] = Some("/") THEN TRUE
    ELSE IF d.children # None
    THEN \E i \in 1..Len(d.children.v) :
             \E j \in 1..Len(d.children.v[i].mountpoints) :
                 d.children.v[i].mountpoints[j] = Some("/")
    ELSE FALSE

RECURSIVE is_system(_)
is_system(d) ==
    IF \E i \in 1..Len(d.mountpoints) : d.mountpoints[i] = Some("/") THEN TRUE
    ELSE IF d.children # None
    THEN \E i \in 1..Len(d.children.v) : is_system(d.children.v[i])
    ELSE FALSE

\* system(): iter().filter(..).collect(); a reference into blockdevices is
\* written as the position it points to
system(devices) ==
    LET F[i \in 0..Len(devices.blockdevices)] ==
            IF i = 0 THEN <<>>
            ELSE IF is_system(devices.blockdevices[i]) THEN Append(F[i - 1], i)
            ELSE F[i - 1]
    IN  F[Len(devices.blockdevices)]

\* a filter that keeps every device not itself mounted at /
non_system_own_mounts(devices) ==
    LET F[i \in 0..Len(devices.blockdevices)] ==
            IF i = 0 THEN <<>>
            ELSE IF ~\E j \in 1..Len(devices.blockdevices[i].mountpoints) :
                        devices.blockdevices[i].mountpoints[j] = Some("/")
            THEN Append(F[i - 1], i)
            ELSE F[i - 1]
    IN  F[Len(devices.blockdevices)]

non_system(devices) ==
    LET F[i \in 0..Len(devices.blockdevices)] ==
            IF i = 0 THEN <<>>
            ELSE IF ~is_system(devices.blockdevices[i]) THEN Append(F[i - 1], i)
            ELSE F[i - 1]
    IN  F[Len(devices.blockdevices)]

\* a search that goes on into the children of the devices it passes
RECURSIVE FindDeep(_, _)
FindDeep(devices, name) ==
    LET hit == [i \in 1..Len(devices) |->
                   IF devices[i].name = name THEN Some(<<i>>)
                   ELSE IF devices[i].children = None THEN None
                   ELSE IF FindDeep(devices[i].children.v, name) = None THEN None
                   ELSE Some(<<i>> \o FindDeep(devices[i].children.v, name).v)]
        at == {i \in 1..Len(devices) : hit[i] # None}
    IN  IF at = {} THEN None ELSE hit[First(at)]

find_by_name_deep(devices, name) == FindDeep(devices.blockdevices, name)

\* iter().find(|d| d.name == name): a reference to the first such device
find_by_name(devices, name) ==
    LET at == {i \in 1..Len(devices.blockdevices) : devices.blockdevices[i].name = name}
    IN  IF at = {} THEN None ELSE Some(<<First(at)>>)

\* a search that returns the last child of the name
find_child_last(d, name) ==
    IF d.children = None THEN None
    ELSE LET at == {i \in 1..Len(d.children.v) : d.children.v[i].name = name}
         IN  IF at = {} THEN None ELSE Some(<<Last(at)>>)

\* self.children.as_ref()?.iter().find(|c| c.name == name)
find_child(d, name) ==
    IF d.children = None THEN None
    ELSE LET at == {i \in 1..Len(d.children.v) : d.children.v[i].name = name}
         IN  IF at = {} THEN None ELSE Some(<<First(at)>>)

\* the device a path leads to, from a list of devices
RECURSIVE DeviceAt(_, _)
DeviceAt(devices, path) ==
    IF Len(path) = 1 THEN devices[path[1]]
    ELSE DeviceAt(devices[path[1]].children.v, Tail(path))

\* the paths to the devices of a list and to all that are below them
RECURSIVE Paths(_)
Paths(devices) ==
    UNION {{<<i>>} \cup (IF devices[i].children = None THEN {}
                         ELSE {<<i>> \o below : below \in Paths(devices[i].children.v)}) :
           i \in 1..Len(devices)}

(***************************************************************************)
(* The documents the model reads.                                          *)
(***************************************************************************)
DeviceRecord(name, maj_min, size, type, mountMembers, childMembers) ==
    JObj(<< <<"name", JStr(name)>>, <<"maj:min", JStr(maj_min)>>,
            <<"rm", JBool(FALSE)>>, <<"size", size>>, <<"ro", JBool(FALSE)>>,
            <<"type", JStr(type)>> >> \o mountMembers \o childMembers)

Document(devices) == JObj(<< <<"blockdevices", JArr(devices)>> >>)

Mountpoint(v) == << <<"mountpoint", v>> >>

Mountpoints(vs) == << <<"mountpoints", JArr(vs)>> >>

Children(ds) == << <<"children", JArr(ds)>> >>

Size500G == JStr(<<"5", "0", "0", "G">>)

Size19G == JStr(<<"1", "9", ".", "1", "G">>)

Size8M == JStr(<<"8", "M">>)

\* the devices of the tree documents
DevicePool ==
    { \* a disk mounted at / itself
      DeviceRecord("sda", "8:0", Size500G, "disk", Mountpoints(<<JStr("/")>>), <<>>),
      \* a disk with a null mountpoint and no children member
      DeviceRecord("sdb", "8:16", Size500G, "disk", Mountpoint(JNull), <<>>),
      \* a byte count, two mount slots, an empty children list
      DeviceRecord("sdc", "8:32", JPosInt(NatBits(512)), "disk",
                   Mountpoints(<<JNull, JStr("/home")>>), Children(<<>>)),
      \* / on a grandchild
      DeviceRecord("nvme3n1", "259:19", Size500G, "disk", Mountpoint(JNull),
          Children(<<
              DeviceRecord("nvme3n1p2", "259:24", Size8M, "part",
                           Mountpoint(JStr("/boot/efi")), <<>>),
              DeviceRecord("nvme3n1p5", "259:27", Size19G, "part", Mountpoint(JNull),
                  Children(<<DeviceRecord("md2", "9:2", Size19G, "raid1",
                                          Mountpoint(JStr("/")), <<>>)>>)) >>)),
      \* nested mounts, none of them /
      DeviceRecord("nvme2n1", "259:31", Size500G, "disk", Mountpoint(JNull),
          Children(<<
              DeviceRecord("nvme2n1p3", "259:34", Size8M, "part", Mountpoint(JNull),
                  Children(<<DeviceRecord("md0", "9:0", Size8M, "raid1",
                                          Mountpoint(JStr("/boot")), <<>>)>>)),
              DeviceRecord("nvme2n1p4", "259:35", Size8M, "part",
                           Mountpoints(<<JStr("[SWAP]")>>), <<>>) >>)),
      \* an unknown type label, no mount member, children null
      DeviceRecord("zram0", "252:0", JPosInt(<<>>), "zram", <<>>,
                   << <<"children", JNull>> >>),
      \* / on a child
      DeviceRecord("sdd", "8:48", Size500G, "disk", Mountpoints(<<JNull>>),
          Children(<<DeviceRecord("sdd1", "8:49", Size500G, "part",
                                  Mountpoints(<<JStr("/")>>), <<>>)>>)),
      \* / three levels down, second in its list
      DeviceRecord("sde", "8:64", Size500G, "disk", Mountpoint(JNull),
          Children(<<
              DeviceRecord("sde1", "8:65", Size500G, "part", <<>>,
                  Children(<<
                      DeviceRecord("luks", "253:0", Size500G, "crypt", Mountpoint(JNull),
                          Children(<<DeviceRecord("vg-root", "253:1", Size500G, "lvm",
                                        Mountpoints(<<JStr("/home"), JStr("/")>>),
                                        <<>>)>>)) >>)) >>)),
      \* a record written as the list of its fields, the last two left out
      JArr(<<JStr("loop0"), JStr("7:0"), JBool(FALSE), Size8M, JBool(TRUE), JStr("loop")>>) }

SeqsUpTo(S, n) == UNION {[1..k -> S] : k \in 0..n}

TreeDocuments == {Document(ds) : ds \in SeqsUpTo(DevicePool, MaxTop)}

\* the values a mount member may hold
MountScalars == {JNull, JStr("/"), JStr("/home")}

MountValues ==
    MountScalars \cup {JPosInt(<<1>>)}
        \cup {JArr(vs) : vs \in SeqsUpTo(MountScalars, MaxMounts)}
        \cup {JArr(<<JStr("/"), JBool(TRUE)>>)}

MountMembers == SeqsUpTo({"mountpoint", "mountpoints"} \X MountValues, 2)

MountDocument(members) ==
    Document(<<DeviceRecord("sda", "8:0", Size500G, "disk", members, <<>>)>>)

\* the size strings: padding, sign, digits and points, padding, suffix, padding
DigitChars == {"1", "5"}

Numerals ==
    {ip \o fp : ip \in SeqsUpTo(DigitChars, MaxIntDigits),
                fp \in {<<>>} \cup {<<".">> \o f : f \in SeqsUpTo(DigitChars, MaxFracDigits)}}

GridSuffixes == {<<>>, <<"K">>, <<"M">>, <<"G">>, <<"T">>, <<"P">>}

EdgeNumerals ==
    {<<>>, <<"0">>, <<"1">>, <<"1", ".", "5">>, <<".">>, <<".", "5">>, <<"5", ".">>,
     <<"1", ".", "5", ".", "1">>}

ListedSuffixes ==
    {<<>>, <<"B">>, <<"b">>,
     <<"K">>, <<"k">>, <<"K", "B">>, <<"k", "b">>, <<"K", "b">>, <<"K", "i", "B">>,
     <<"K", "I", "B">>, <<"k", "i", "b">>,
     <<"M">>, <<"m">>, <<"M", "B">>, <<"M", "i", "B">>, <<"m", "i", "b">>,
     <<"G">>, <<"g">>, <<"G", "B">>, <<"g", "b">>, <<"G", "i", "B">>,
     <<"T">>, <<"t">>, <<"T", "B">>, <<"T", "i", "B">>, <<"t", "i", "b">>,
     <<"P">>, <<"p">>, <<"P", "B">>, <<"p", "b">>, <<"P", "i", "B">>, <<"p", "i", "b">>}

UnlistedSuffixes ==
    {<<"X">>, <<"E">>, <<"K", "K">>, <<"K", "i">>, <<"i", "B">>, <<"B", "K">>,
     <<"K", " ", "B">>, <<"e", "5">>, <<"-">>, <<"B", "B">>}

SizeParts ==
    [lead : {<<>>}, sign : {<<>>}, num : Numerals, mid : {<<>>}, suf : GridSuffixes,
     trail : {<<>>}]
        \cup [lead : {<<>>, <<" ">>}, sign : {<<>>, <<"-">>, <<"+">>}, num : EdgeNumerals,
              mid : {<<>>, <<" ">>}, suf : ListedSuffixes \cup UnlistedSuffixes,
              trail : {<<>>, <<" ", "\t">>}]

SizeText(p) == p.lead \o p.sign \o p.num \o p.mid \o p.suf \o p.trail

\* the size members that are not strings
SizeNumbers ==
    {JPosInt(<<>>), JPosInt(NatBits(512)), JPosInt(U64Max), JNegInt(<<1>>),
     JNegInt(NatBits(512)),
     JFloat([neg |-> FALSE, m |-> <<1, 1>>, e |-> -1]),
     JFloat([neg |-> TRUE, m |-> <<1, 1>>, e |-> -1]),
     JFloat([neg |-> FALSE, m |-> <<1>>, e |-> U64Bits]),
     JFloat([neg |-> FALSE, m |-> <<1, 0, 1>>, e |-> 70])}

SizeOthers == {JNull, JBool(TRUE), JArr(<<>>)}

\* a document with one size member, on a top-level device or on a child
SizeDocument(size, nested) ==
    IF nested
    THEN Document(<<DeviceRecord("sda", "8:0", Size500G, "disk", Mountpoint(JNull),
                        Children(<<DeviceRecord("sda1", "8:1", size, "part",
                                                Mountpoint(JNull), <<>>)>>))>>)
    ELSE Document(<<DeviceRecord("sda", "8:0", size, "disk", Mountpoint(JNull), <<>>)>>)

\* the type labels: the variants' own, and labels that name no variant
TypeLabels ==
    DOMAIN Variants
        \cup {"", "zram", "mpath", "Disk", "DISK", "Part", "RAID1", "Raid10", "LVM", "Other",
              "disk ", "raid", "raid2"}

\* a document with one type label, on a top-level device or on a child
TypeDocument(label, nested) ==
    IF nested
    THEN Document(<<DeviceRecord("sda", "8:0", Size500G, "disk", Mountpoint(JNull),
                        Children(<<DeviceRecord("sda1", "8:1", Size8M, label,
                                                Mountpoint(JNull), <<>>)>>))>>)
    ELSE Document(<<DeviceRecord("sda", "8:0", Size500G, label, Mountpoint(JNull), <<>>)>>)

\* what may be wrong with one device record
SizeFaults == {"size_unit", "size_empty", "size_signed", "size_null", "size_bool"}

MountFaults == {"mount_number", "mount_object", "mount_list_bool", "mount_list_number"}

MissingFaults == {"no_name", "no_maj_min", "no_rm", "no_size", "no_ro", "no_type"}

TypeFaults == {"name_number", "rm_string", "type_number", "children_string"}

EntryFaults == {"entry_string", "entry_number", "entry_null", "entry_bool"}

Faults == SizeFaults \cup MountFaults \cup MissingFaults \cup TypeFaults \cup EntryFaults

\* the places of a record in the fault documents
Places == {"first", "second", "child", "grandchild"}

Member(key, value) == << <<key, value>> >>

\* the size member of a record with the fault
FaultySize(fault) ==
    CASE fault = "no_size" -> <<>>
      [] fault = "size_unit" -> Member("size", JStr(<<"1", "X">>))
      [] fault = "size_empty" -> Member("size", JStr(<<>>))
      [] fault = "size_signed" -> Member("size", JStr(<<"-", "5", "G">>))
      [] fault = "size_null" -> Member("size", JNull)
      [] fault = "size_bool" -> Member("size", JBool(TRUE))
      [] OTHER -> Member("size", Size8M)

\* the mount member
FaultyMount(fault) ==
    CASE fault = "mount_number" -> Mountpoint(JPosInt(<<1>>))
      [] fault = "mount_object" -> Mountpoint(JObj(<<>>))
      [] fault = "mount_list_bool" -> Mountpoints(<<JStr("/"), JBool(TRUE)>>)
      [] fault = "mount_list_number" -> Mountpoints(<<JPosInt(<<1>>)>>)
      [] OTHER -> Mountpoint(JNull)

\* an entry of a children list that is no record
FaultyEntry(fault) ==
    CASE fault = "entry_string" -> JStr("sda9")
      [] fault = "entry_number" -> JPosInt(<<1>>)
      [] fault = "entry_null" -> JNull
      [] fault = "entry_bool" -> JBool(FALSE)

\* the children member: the records below, and with an entry fault one more entry
FaultyChildren(fault, below) ==
    IF fault = "children_string" THEN Member("children", JStr("sda1"))
    ELSE IF fault \in EntryFaults THEN Children(below \o <<FaultyEntry(fault)>>)
    ELSE IF below = <<>> THEN <<>>
    ELSE Children(below)

\* a record with the fault ("none": without one) and the records below it
FaultyRecord(name, fault, below) ==
    JObj((IF fault = "no_name" THEN <<>>
          ELSE Member("name", IF fault = "name_number" THEN JPosInt(<<1>>) ELSE JStr(name)))
         \o (IF fault = "no_maj_min" THEN <<>> ELSE Member("maj:min", JStr("8:0")))
         \o (IF fault = "no_rm" THEN <<>>
             ELSE Member("rm", IF fault = "rm_string" THEN JStr("0") ELSE JBool(FALSE)))
         \o FaultySize(fault)
         \o (IF fault = "no_ro" THEN <<>> ELSE Member("ro", JBool(FALSE)))
         \o (IF fault = "no_type" THEN <<>>
             ELSE Member("type", IF fault = "type_number" THEN JPosInt(<<1>>) ELSE JStr("disk")))
         \o FaultyMount(fault)
         \o FaultyChildren(fault, below))

FaultAt(fault, place, here) == IF place = here THEN fault ELSE "none"

\* two devices, the first with a child and a grandchild; one record has the fault
FaultDocument(fault, place) ==
    Document(<<
        FaultyRecord("sda", FaultAt(fault, place, "first"), <<
            FaultyRecord("sda1", FaultAt(fault, place, "child"), <<
                FaultyRecord("md0", FaultAt(fault, place, "grandchild"), <<>>) >>) >>),
        FaultyRecord("sdb", FaultAt(fault, place, "second"), <<>>) >>)

\* UTF-8: the continuation bytes a lead byte asks for, -1 for a byte that
\* cannot lead
Continuations(b) ==
    IF b < 128 THEN 0
    ELSE IF b \in 194..223 THEN 1
    ELSE IF b \in 224..239 THEN 2
    ELSE IF b \in 240..244 THEN 3
    ELSE -1

\* the bytes that may follow a lead byte at once
SecondBytes(b) ==
    IF b = 224 THEN 160..191
    ELSE IF b = 237 THEN 128..159
    ELSE IF b = 240 THEN 144..191
    ELSE IF b = 244 THEN 128..143
    ELSE 128..191

\* the continuation bytes found after the lead byte at i, of the need asked for
Matched(bytes, i, need) ==
    LET fits == {k \in 0..need :
                    \A j \in 1..k :
                        /\ i + j <= Len(bytes)
                        /\ bytes[i + j] \in (IF j = 1 THEN SecondBytes(bytes[i]) ELSE 128..191)}
    IN  Last(fits)

\* the character a complete sequence at i encodes
CodePoint(bytes, i, need) ==
    IF need = 0 THEN bytes[i]
    ELSE IF need = 1 THEN (bytes[i] - 192) * 64 + (bytes[i + 1] - 128)
    ELSE IF need = 2
         THEN (bytes[i] - 224) * 4096 + (bytes[i + 1] - 128) * 64 + (bytes[i + 2] - 128)
    ELSE (bytes[i] - 240) * 262144 + (bytes[i + 1] - 128) * 4096
             + (bytes[i + 2] - 128) * 64 + (bytes[i + 3] - 128)

\* the chunk at i: a character and its length, or an invalid sequence and the
\* length of it
ChunkOf(bytes, i, need, matched) ==
    IF need = -1 THEN [ok |-> FALSE, len |-> 1]
    ELSE IF matched < need THEN [ok |-> FALSE, len |-> 1 + matched]
    ELSE [ok |-> TRUE, len |-> 1 + need, c |-> CodePoint(bytes, i, need)]

ChunkNeeding(bytes, i, need) ==
    ChunkOf(bytes, i, need, IF need = -1 THEN 0 ELSE Matched(bytes, i, need))

ChunkAt(bytes, i) == ChunkNeeding(bytes, i, Continuations(bytes[i]))

\* the chunks of a byte string, from its start
Utf8Chunks(bytes) ==
    LET F[i \in 1..(Len(bytes) + 1)] ==
            IF i > Len(bytes) THEN <<>>
            ELSE <<ChunkAt(bytes, i)>> \o F[i + ChunkAt(bytes, i).len]
    IN  F[1]

LossyOf(chunks) ==
    [i \in 1..Len(chunks) |-> IF chunks[i].ok THEN chunks[i].c ELSE ReplacementChar]

\* String::from_utf8_lossy(&output.stderr).into_owned()
from_utf8_lossy(bytes) == LossyOf(Utf8Chunks(bytes))

StrictOf(chunks) ==
    IF \E i \in 1..Len(chunks) : ~chunks[i].ok THEN Err("FromUtf8Error")
    ELSE Ok([i \in 1..Len(chunks) |-> chunks[i].c])

\* String::from_utf8(output.stdout)
from_utf8(bytes) == StrictOf(Utf8Chunks(bytes))

\* a test that takes every exit code for success
success_any_code(status) == status.code # None

\* ExitStatus::success: the process ended by itself with the code 0
success(status) == status.code = Some(0)

\* serde_json::from_str on the decoded text of standard output: the document
\* lsblk writes for one disk, whole, with a size no unit of which is known, or
\* cut off, with the device's name in it
from_str(text) ==
    IF text.shape = "cut_off" THEN Err("EOF while parsing")
    ELSE parse_lsblk(Document(<<DeviceRecord(text.name, "8:0",
                                             IF text.shape = "bad_size"
                                             THEN JStr(<<"1", "2", "Q">>) ELSE Size500G,
                                             "disk", Mountpoint(JNull), <<>>)>>))

\* the devices of the query documents: names that recur among siblings, at
\* other depths and in other branches; children absent, null, empty and nested
QueryPool ==
    { DeviceRecord("sda", "8:0", Size500G, "disk",
          Mountpoints(<<JStr("/mnt"), JNull, JStr("/"), JStr("/mnt")>>),
          Children(<<
              DeviceRecord("sda1", "8:1", Size19G, "part", Mountpoint(JNull),
                  Children(<<DeviceRecord("md0", "9:0", Size19G, "raid1",
                                          Mountpoint(JStr("/boot")), <<>>),
                             DeviceRecord("sda1", "9:1", Size8M, "raid1",
                                          Mountpoints(<<>>), <<>>)>>)),
              DeviceRecord("sda2", "8:2", Size8M, "part", Mountpoints(<<JNull, JNull>>),
                           <<>>),
              DeviceRecord("sda1", "8:3", Size8M, "part", Mountpoint(JStr("/home")),
                           Children(<<>>)) >>)),
      DeviceRecord("md0", "9:0", Size19G, "raid1", Mountpoint(JNull), <<>>),
      DeviceRecord("sda1", "8:1", Size8M, "part", Mountpoints(<<>>), Children(<<>>)),
      DeviceRecord("sdb", "8:16", Size500G, "disk", <<>>, Member("children", JNull)),
      DeviceRecord("", "7:0", Size8M, "loop", <<>>, <<>>),
      DeviceRecord("sdc", "8:32", Size500G, "disk", Mountpoints(<<JNull, JStr("/data")>>),
          Children(<<DeviceRecord("sdc", "8:33", Size500G, "part", Mountpoint(JNull),
                        Children(<<DeviceRecord("sda", "253:0", Size500G, "lvm",
                                                Mountpoint(JStr("/srv")), <<>>)>>))>>)) }

\* the names asked for
QueryNames == {"sda", "sda1", "md0", "sdc", "sdz", "SDA", ""}

NoParts == [lead |-> <<>>, sign |-> <<>>, num |-> <<>>, mid |-> <<>>, suf |-> <<>>,
            trail |-> <<>>]

(***************************************************************************)
(* The state machine: a document is parsed, queried, serialized and parsed *)
(* again.                                                                  *)
(***************************************************************************)
Unset == [k |-> "Unset"]

Start(in, d) ==
    /\ input = in
    /\ doc = d
    /\ pc = "input"
    /\ parsed = Unset
    /\ sysOut = Unset
    /\ nonSysOut = Unset
    /\ ser = Unset
    /\ reparsed = Unset
    /\ call = Unset
    /\ iter = Unset
    /\ lsblk = Unset
    /\ got = Unset

Init == \E d \in TreeDocuments : Start([fam |-> "tree"], d)

InitMount ==
    \E ms \in MountMembers : Start([fam |-> "mount", members |-> ms], MountDocument(ms))

InitSize ==
    \E nested \in BOOLEAN :
        \/ \E p \in SizeParts :
              Start([fam |-> "size", text |-> TRUE, parts |-> p,
                     raw |-> JStr(SizeText(p)), nested |-> nested],
                    SizeDocument(JStr(SizeText(p)), nested))
        \/ \E v \in SizeNumbers \cup SizeOthers :
              Start([fam |-> "size", text |-> FALSE, parts |-> NoParts, raw |-> v,
                     nested |-> nested],
                    SizeDocument(v, nested))

InitType ==
    \E label \in TypeLabels, nested \in BOOLEAN :
        Start([fam |-> "type", label |-> label, nested |-> nested],
              TypeDocument(label, nested))

InitFault ==
    \E fault \in Faults \cup {"none"}, place \in Places :
        Start([fam |-> "fault", fault |-> fault, place |-> place],
              FaultDocument(fault, place))

Parse ==
    /\ pc = "input"
    /\ parsed' = parse_lsblk(doc)
    /\ pc' = "parsed"
    /\ UNCHANGED <<input, doc, sysOut, nonSysOut, ser, reparsed, call, iter, lsblk, got>>

System ==
    /\ pc = "parsed"
    /\ parsed.ok
    /\ sysOut' = system(parsed.v)
    /\ pc' = "system"
    /\ UNCHANGED <<input, doc, parsed, nonSysOut, ser, reparsed, call, iter, lsblk, got>>

NonSystem ==
    /\ pc = "system"
    /\ nonSysOut' = non_system(parsed.v)
    /\ pc' = "non_system"
    /\ UNCHANGED <<input, doc, parsed, sysOut, ser, reparsed, call, iter, lsblk, got>>

Serialize ==
    /\ pc = "non_system"
    /\ ser' = to_string(parsed.v)
    /\ pc' = "serialized"
    /\ UNCHANGED <<input, doc, parsed, sysOut, nonSysOut, reparsed, call, iter, lsblk, got>>

Reparse ==
    /\ pc = "serialized"
    /\ reparsed' = parse_lsblk(ser)
    /\ pc' = "reparsed"
    /\ UNCHANGED <<input, doc, parsed, sysOut, nonSysOut, ser, call, iter, lsblk, got>>

InitQuery == \E ds \in SeqsUpTo(QueryPool, MaxTop) : Start([fam |-> "query"], Document(ds))

\* a collection is there to be asked
Queryable == pc = "parsed" /\ parsed.ok

\* a query has returned
Answer(op, at, arg, ret) ==
    /\ call' = [op |-> op, at |-> at, arg |-> arg, ret |-> ret]
    /\ pc' = "queried"
    /\ UNCHANGED <<input, doc, parsed, sysOut, nonSysOut, ser, reparsed, iter, lsblk, got>>

FindByName ==
    /\ Queryable
    /\ \E name \in QueryNames :
           Answer("find_by_name", <<>>, name, find_by_name(parsed.v, name))

FindChild ==
    /\ Queryable
    /\ \E path \in Paths(parsed.v.blockdevices), name \in QueryNames :
           Answer("find_child", path, name,
                  find_child(DeviceAt(parsed.v.blockdevices, path), name))

ActiveMountpoints ==
    /\ Queryable
    /\ \E path \in Paths(parsed.v.blockdevices) :
           Answer("active_mountpoints", path, "",
                  active_mountpoints(DeviceAt(parsed.v.blockdevices, path)))

IsMounted ==
    /\ Queryable
    /\ \E path \in Paths(parsed.v.blockdevices) :
           Answer("is_mounted", path, "", is_mounted(DeviceAt(parsed.v.blockdevices, path)))

HasChildren ==
    /\ Queryable
    /\ \E path \in Paths(parsed.v.blockdevices) :
           Answer("has_children", path, "",
                  has_children(DeviceAt(parsed.v.blockdevices, path)))

\* an iterator that has yielded nothing yet: what it goes over and how far it is
NewIter(kind, at, source) ==
    [kind |-> kind, at |-> at, source |-> source, pos |-> 0, yielded |-> <<>>,
     done |-> FALSE, round |-> 0, before |-> <<>>]

Moved == [k |-> "Moved"]

\* BlockDevices::iter
Iter ==
    /\ Queryable
    /\ iter' = NewIter("iter", <<>>, parsed.v.blockdevices)
    /\ pc' = "iterating"
    /\ UNCHANGED <<input, doc, parsed, sysOut, nonSysOut, ser, reparsed, call, lsblk, got>>

\* IntoIterator for &BlockDevices
IntoIterRef ==
    /\ Queryable
    /\ iter' = NewIter("into_iter_ref", <<>>, parsed.v.blockdevices)
    /\ pc' = "iterating"
    /\ UNCHANGED <<input, doc, parsed, sysOut, nonSysOut, ser, reparsed, call, lsblk, got>>

\* IntoIterator for BlockDevices: the iterator takes the list, the collection is gone
IntoIter ==
    /\ Queryable
    /\ iter' = NewIter("into_iter", <<>>, parsed.v.blockdevices)
    /\ parsed' = Moved
    /\ pc' = "iterating"
    /\ UNCHANGED <<input, doc, sysOut, nonSysOut, ser, reparsed, call, lsblk, got>>

ChildrenIter ==
    /\ Queryable
    /\ \E path \in Paths(parsed.v.blockdevices) :
           iter' = NewIter("children_iter", path,
                           children_iter(DeviceAt(parsed.v.blockdevices, path)))
    /\ pc' = "iterating"
    /\ UNCHANGED <<input, doc, parsed, sysOut, nonSysOut, ser, reparsed, call, lsblk, got>>

\* children_iter called once more on the same device, the earlier iterator at its end
ChildrenIterAgain ==
    /\ pc = "iterating"
    /\ iter.kind = "children_iter"
    /\ iter.done
    /\ iter.round < MaxRestarts
    /\ iter' = [NewIter("children_iter", iter.at,
                        children_iter(DeviceAt(parsed.v.blockdevices, iter.at)))
                    EXCEPT !.round = iter.round + 1, !.before = iter.yielded]
    /\ UNCHANGED <<input, doc, pc, parsed, sysOut, nonSysOut, ser, reparsed, call, lsblk, got>>

\* Iterator::next returns Some
IterNext ==
    /\ pc = "iterating"
    /\ ~iter.done
    /\ iter.pos < Len(iter.source)
    /\ iter' = [iter EXCEPT !.pos = @ + 1,
                            !.yielded = Append(@, iter.source[iter.pos + 1])]
    /\ UNCHANGED <<input, doc, pc, parsed, sysOut, nonSysOut, ser, reparsed, call, lsblk, got>>

\* Iterator::next returns None
IterEnd ==
    /\ pc = "iterating"
    /\ ~iter.done
    /\ iter.pos = Len(iter.source)
    /\ iter' = [iter EXCEPT !.done = TRUE]
    /\ UNCHANGED <<input, doc, pc, parsed, sysOut, nonSysOut, ser, reparsed, call, lsblk, got>>

Next == Parse \/ System \/ NonSystem \/ Serialize \/ Reparse

Spec == Init /\ [][Next]_vars

SpecMount == InitMount /\ [][Next]_vars

SpecSize == InitSize /\ [][Next]_vars

SpecType == InitType /\ [][Next]_vars

SpecFault == InitFault /\ [][Next]_vars

\* the byte strings lsblk may write: of an ASCII byte, the two bytes of U+00E9
\* and a byte that is in no UTF-8 text
ByteStrings == SeqsUpTo({115, 195, 169, 255}, MaxBytes)

\* what may happen when lsblk is run: it does not start; or it ends, with a
\* code or, when a signal ended it, with none, and has written a document, a
\* document with a bad size or a text that is cut off
Worlds ==
    {[spawn |-> Err(e), runs |-> 0] : e \in {"NotFound", "PermissionDenied"}}
        \cup {[spawn |-> Ok([status |-> [code |-> c],
                             stdout |-> [shape |-> sh, name |-> out],
                             stderr |-> errb]),
               runs |-> 0] :
                 c \in {Some(0), Some(1), Some(32), None},
                 sh \in {"document", "bad_size", "cut_off"},
                 out \in ByteStrings, errb \in ByteStrings}

InitGet ==
    /\ lsblk \in Worlds
    /\ got = [at |-> "called", steps |-> <<>>]
    /\ pc = "get_devices"
    /\ input = Unset /\ doc = Unset /\ parsed = Unset /\ sysOut = Unset
    /\ nonSysOut = Unset /\ ser = Unset /\ reparsed = Unset
    /\ call = Unset /\ iter = Unset

\* get_devices returns
Return(step, ret) ==
    got' = [at |-> "returned", steps |-> Append(got.steps, step), ret |-> ret]

\* Command::new("lsblk").arg("--json").arg("--bytes").output()?
CommandOutput ==
    /\ got.at = "called"
    /\ lsblk' = [lsblk EXCEPT !.runs = @ + 1]
    /\ IF lsblk.spawn.ok
       THEN got' = [at |-> "ran", steps |-> Append(got.steps, "output"),
                    output |-> lsblk.spawn.v]
       ELSE Return("output", Err([k |-> "CommandFailed", e |-> lsblk.spawn.err]))
    /\ UNCHANGED <<input, doc, pc, parsed, sysOut, nonSysOut, ser, reparsed, call, iter>>

\* if !output.status.success() { return Err(LsblkError(..)) }
StatusSuccess ==
    /\ got.at = "ran"
    /\ IF success(got.output.status)
       THEN got' = [got EXCEPT !.at = "succeeded", !.steps = Append(@, "success")]
       ELSE Return("success", Err([k |-> "LsblkError",
                                   e |-> from_utf8_lossy(got.output.stderr)]))
    /\ UNCHANGED <<input, doc, pc, parsed, sysOut, nonSysOut, ser, reparsed, call, iter, lsblk>>

\* let json_output = String::from_utf8(output.stdout)?
StringFromUtf8 ==
    /\ got.at = "succeeded"
    /\ LET name == from_utf8(got.output.stdout.name)
       IN  IF name.ok
           THEN got' = [at |-> "decoded", steps |-> Append(got.steps, "from_utf8"),
                        json_output |-> [shape |-> got.output.stdout.shape,
                                         name |-> name.v]]
           ELSE Return("from_utf8", Err([k |-> "InvalidUtf8", e |-> name.err]))
    /\ UNCHANGED <<input, doc, pc, parsed, sysOut, nonSysOut, ser, reparsed, call, iter, lsblk>>

\* let lsblk = parse_lsblk(&json_output)?; Ok(lsblk)
ParseLsblk ==
    /\ got.at = "decoded"
    /\ LET devices == from_str(got.json_output)
       IN  IF devices.ok
           THEN Return("parse_lsblk", Ok(devices.v))
           ELSE Return("parse_lsblk", Err([k |-> "JsonParse", e |-> devices.err]))
    /\ UNCHANGED <<input, doc, pc, parsed, sysOut, nonSysOut, ser, reparsed, call, iter, lsblk>>

NextGet == CommandOutput \/ StatusSuccess \/ StringFromUtf8 \/ ParseLsblk

SpecGet == InitGet /\ [][NextGet]_vars

NextQuery ==
    \/ Next
    \/ FindByName
    \/ FindChild
    \/ ActiveMountpoints
    \/ IsMounted
    \/ HasChildren
    \/ Iter
    \/ IntoIterRef
    \/ IntoIter
    \/ ChildrenIter
    \/ ChildrenIterAgain
    \/ IterNext
    \/ IterEnd

SpecQuery == InitQuery /\ [][NextQuery]_vars

(***************************************************************************)
(* What the properties below speak of.                                     *)
(***************************************************************************)
\* a collection has been built
Built == pc # "input" /\ parsed.ok

Range(s) == {s[i] : i \in 1..Len(s)}

\* the device and its descendants at every depth
RECURSIVE Subtree(_)
Subtree(d) ==
    {d} \cup (IF d.children = None THEN {}
              ELSE UNION {Subtree(d.children.v[i]) : i \in 1..Len(d.children.v)})

\* "/" is among the non-null entries of the device's own mountpoints
MountsRoot(d) ==
    \E i \in 1..Len(d.mountpoints) : d.mountpoints[i] # None /\ d.mountpoints[i].v = "/"

RootInSubtree(d) == \E n \in Subtree(d) : MountsRoot(n)

\* / is mounted below the device, on no child of it and not on itself
RootDeeperThanChildren(d) ==
    /\ RootInSubtree(d)
    /\ ~MountsRoot(d)
    /\ \A i \in 1..Len(d.children.v) : ~MountsRoot(d.children.v[i])

\* C1: for every device of a built tree, at any depth, is_system is true iff
\* "/" is a non-null mountpoint of the device or of one of its descendants;
\* so it is false when there are no children, or none that leads to "/".
C1_IsSystemIffRootInSubtree ==
    Built =>
        \A i \in 1..Len(parsed.v.blockdevices) :
            \A d \in Subtree(parsed.v.blockdevices[i]) : is_system(d) <=> RootInSubtree(d)

\* system() has returned a device whose "/" lies below its children, beside
\* a device with an empty list of children that it has left out
C1_Witness ==
    /\ pc = "system"
    /\ Len(parsed.v.blockdevices) = 2
    /\ RootDeeperThanChildren(parsed.v.blockdevices[1])
    /\ is_system(parsed.v.blockdevices[1])
    /\ parsed.v.blockdevices[2].children = Some(<<>>)
    /\ ~is_system(parsed.v.blockdevices[2])
    /\ sysOut = <<1>>

StrictlyIncreasing(s) == \A i \in 1..Len(s) : \A j \in 1..Len(s) : i < j => s[i] < s[j]

\* C2: system() and non_system() split the top-level devices: each position is
\* in exactly one of the two results, in system() iff the device or one of its
\* descendants mounts "/"; neither result repeats a device, the lengths add up
\* to len(), and both results keep the original order.
C2_SystemNonSystemPartition ==
    pc \in {"non_system", "serialized", "reparsed"} =>
        /\ Range(sysOut) \cup Range(nonSysOut) = 1..Len(parsed.v.blockdevices)
        /\ Range(sysOut) \cap Range(nonSysOut) = {}
        /\ Len(sysOut) + Len(nonSysOut) = Len(parsed.v.blockdevices)
        /\ StrictlyIncreasing(sysOut)
        /\ StrictlyIncreasing(nonSysOut)
        /\ \A i \in 1..Len(parsed.v.blockdevices) :
               i \in Range(sysOut) <=> RootInSubtree(parsed.v.blockdevices[i])

\* both queries have run on two devices, the second in system() only through
\* a descendant, the first in non_system() although it is mounted
C2_Witness ==
    /\ pc = "non_system"
    /\ sysOut = <<2>>
    /\ nonSysOut = <<1>>
    /\ is_mounted(parsed.v.blockdevices[1])
    /\ ~MountsRoot(parsed.v.blockdevices[2])

\* C3: when an accepted document's collection is serialized and the result is
\* parsed again, the second parse succeeds and gives a collection equal to the
\* first in every field of every device, at every depth.
C3_RoundTrip == pc = "reparsed" => reparsed.ok /\ reparsed.v = parsed.v

\* a round trip of a tree three levels deep that holds a null mountpoint, next
\* to a device of an unknown type whose children were null
C3_Witness ==
    /\ pc = "reparsed"
    /\ reparsed = parsed
    /\ Len(parsed.v.blockdevices) = 2
    /\ RootDeeperThanChildren(parsed.v.blockdevices[1])
    /\ parsed.v.blockdevices[1].mountpoints = <<None>>
    /\ parsed.v.blockdevices[2].device_type = "Other"
    /\ parsed.v.blockdevices[2].children = None

\* the document held one device whose mount members are input.members
MountRead == pc # "input" /\ input.fam = "mount"

\* the list entry a null or a string stands for
Entry(v) == IF v.k = "null" THEN None ELSE Some(v.v)

IsScalar(v) == v.k \in {"null", "str"}

IsScalarList(v) == v.k = "arr" /\ \A i \in 1..Len(v.v) : IsScalar(v.v[i])

\* C4: a mount field holding a single value v, null or a string, gives the
\* same mountpoints as one holding the list [v]: [None] for null, [Some(p)]
\* for the string p, under either name of the field.
C4_SingleValueIsOneElementList ==
    MountRead /\ Len(input.members) = 1 =>
        LET v == input.members[1][2]
        IN  /\ IsScalar(v) =>
                  /\ parsed.ok
                  /\ parsed.v.blockdevices[1].mountpoints = <<Entry(v)>>
            /\ IsScalarList(v) /\ Len(v.v) = 1 =>
                  /\ parsed.ok
                  /\ parsed.v.blockdevices[1].mountpoints = <<Entry(v.v[1])>>

\* a single string under the singular name has been read as a one-entry list
C4_Witness ==
    /\ pc = "parsed"
    /\ input.fam = "mount"
    /\ input.members = << <<"mountpoint", JStr("/")>> >>
    /\ parsed.ok
    /\ parsed.v.blockdevices[1].mountpoints = <<Some("/")>>

\* C5: a device without any mount member parses, with no mountpoints at all,
\* which is not the list [None] that a null mount member gives; is_mounted is
\* false for the one and for the other.
C5_AbsentMountFieldIsEmptyList ==
    MountRead =>
        /\ input.members = <<>> =>
              /\ parsed.ok
              /\ parsed.v.blockdevices[1].mountpoints = <<>>
              /\ parsed.v.blockdevices[1].mountpoints # <<None>>
              /\ ~is_mounted(parsed.v.blockdevices[1])
        /\ Len(input.members) = 1 /\ input.members[1][2].k = "null" =>
              /\ parsed.ok
              /\ parsed.v.blockdevices[1].mountpoints = <<None>>
              /\ ~is_mounted(parsed.v.blockdevices[1])

\* a device without mount members has been built, and goes through the
\* queries as an unmounted device
C5_Witness ==
    /\ pc = "non_system"
    /\ input.fam = "mount"
    /\ input.members = <<>>
    /\ parsed.v.blockdevices[1].mountpoints = <<>>
    /\ nonSysOut = <<1>>

\* the record carries the singular and the plural mount member, in either order
BothMountFields ==
    /\ Len(input.members) = 2
    /\ {input.members[1][1], input.members[2][1]} = {"mountpoint", "mountpoints"}

\* the value of the plural member
PluralValue ==
    IF input.members[1][1] = "mountpoints" THEN input.members[1][2] ELSE input.members[2][2]

\* what a value that is a scalar or a list of scalars normalizes to
Normalized(v) ==
    IF v.k = "arr" THEN [i \in 1..Len(v.v) |-> Entry(v.v[i])] ELSE <<Entry(v)>>

IsMountValue(v) == IsScalar(v) \/ IsScalarList(v)

\* C6, as the code has it: a record that carries both the singular and the
\* plural mount member, in either order, is not parsed at all; when the first
\* of the two is a value the field accepts, the error is that of a field
\* given twice.
C6_BothMountFieldsRejected ==
    MountRead /\ BothMountFields =>
        /\ ~parsed.ok
        /\ IsMountValue(input.members[1][2]) => parsed.err = "duplicate field"

\* C6, as the specification has it: with both members present the parse succeeds and
\* the mountpoints are those of the plural member.
C6_PluralWins ==
    MountRead /\ BothMountFields
        /\ IsMountValue(input.members[1][2]) /\ IsMountValue(input.members[2][2]) =>
        /\ parsed.ok
        /\ parsed.v.blockdevices[1].mountpoints = Normalized(PluralValue)

\* the singular member first, then the plural one: the parse has failed
C6_Witness ==
    /\ pc = "parsed"
    /\ input.fam = "mount"
    /\ input.members = << <<"mountpoint", JStr("/")>>, <<"mountpoints", JArr(<<JStr("/home")>>)>> >>
    /\ ~parsed.ok
    /\ parsed.err = "duplicate field"

(***************************************************************************)
(* Size strings, measured against exact decimal arithmetic.                *)
(***************************************************************************)
\* the size member was a string, made of input.parts
SizeTextRead == pc # "input" /\ input.fam = "size" /\ input.text

\* the byte count of the device that carried the size member
SizeOf ==
    IF input.nested THEN parsed.v.blockdevices[1].children.v[1].size
    ELSE parsed.v.blockdevices[1].size

DotsOf(num) == {i \in 1..Len(num) : num[i] = "."}

\* a non-negative decimal number: digits, at least one, around at most one point
IsDecimal(num) == Cardinality(DotsOf(num)) <= 1 /\ Len(num) > Cardinality(DotsOf(num))

IntDigits(num) ==
    IF DotsOf(num) = {} THEN num ELSE SubSeq(num, 1, (CHOOSE i \in DotsOf(num) : TRUE) - 1)

FracDigits(num) ==
    IF DotsOf(num) = {} THEN <<>>
    ELSE SubSeq(num, (CHOOSE i \in DotsOf(num) : TRUE) + 1, Len(num))

\* the power of 1024 that a listed suffix stands for
UnitPower(suf) ==
    IF suf = <<>> THEN 0
    ELSE CASE suf[1] \in {"B", "b"} -> 0
           [] suf[1] \in {"K", "k"} -> 1
           [] suf[1] \in {"M", "m"} -> 2
           [] suf[1] \in {"G", "g"} -> 3
           [] suf[1] \in {"T", "t"} -> 4
           [] suf[1] \in {"P", "p"} -> 5

\* the integer part of num * 1024^u, exactly, in binary digits
ExactFloor(num, u) ==
    Strip(NatBits(DecimalValue(IntDigits(num)))
              \o FracBits(DecimalValue(FracDigits(num)), Pow10(Len(FracDigits(num))), u))

\* the fractional part of num * 1024^u is one half or more
HalfOrMore(num, u) ==
    2 * FracRem(DecimalValue(FracDigits(num)), Pow10(Len(FracDigits(num))), u)
        >= Pow10(Len(FracDigits(num)))

\* the integers an exact product x may become through floating point and a
\* conversion to an integer: below 2^53 the integer below x or the one above,
\* from there on the two nearest integers of 53 significant digits
Neighbours(floor) ==
    IF Len(floor) <= MantissaBits THEN {floor, Inc(floor)}
    ELSE {SubSeq(floor, 1, MantissaBits) \o Zeros(Len(floor) - MantissaBits),
          Inc(SubSeq(floor, 1, MantissaBits)) \o Zeros(Len(floor) - MantissaBits)}

\* an unsigned decimal number, then a listed suffix
ValidSizeParts(p) == p.sign = <<>> /\ IsDecimal(p.num) /\ p.suf \in ListedSuffixes

ProductFloor == ExactFloor(input.parts.num, UnitPower(input.parts.suf))

\* C7, as the specification has it: a size string made of a decimal number N, optional
\* whitespace and a listed suffix parses, its byte count is N times the
\* suffix's multiplier up to the conversion to an integer, and it is the byte
\* count of the same string with its suffix in upper case.
C7_SizeIsNumberTimesMultiplier ==
    SizeTextRead /\ ValidSizeParts(input.parts) =>
        /\ parsed.ok
        /\ SizeOf \in Neighbours(ProductFloor)
        /\ Some(SizeOf)
               = parse_size_string(SizeText([input.parts EXCEPT !.suf = to_uppercase(@)]))

\* C8, as the code has it: the byte count is the floating-point product cut
\* toward zero, never rounded up: the integer part of the product below 2^52,
\* the product to 53 significant digits from there to 2^64, and 2^64 - 1 for
\* every product of 2^64 or more.
C8_SizeIsProductCutTowardZero ==
    SizeTextRead /\ ValidSizeParts(input.parts) =>
        /\ parsed.ok
        /\ IF Len(ProductFloor) < MantissaBits THEN SizeOf = ProductFloor
           ELSE IF Len(ProductFloor) <= U64Bits THEN SizeOf \in Neighbours(ProductFloor)
           ELSE SizeOf = U64Max

\* C8, as the specification has it: the byte count is the product rounded to the
\* nearest integer, a fractional part of one half or more rounding up.
C8_SizeIsRoundedProduct ==
    SizeTextRead /\ ValidSizeParts(input.parts) /\ Len(ProductFloor) < MantissaBits =>
        /\ parsed.ok
        /\ SizeOf = IF HalfOrMore(input.parts.num, UnitPower(input.parts.suf))
                    THEN Inc(ProductFloor) ELSE ProductFloor

\* "1.5" has been read as one byte
C8_Witness ==
    /\ pc = "parsed"
    /\ input.fam = "size"
    /\ input.raw = JStr(<<"1", ".", "5">>)
    /\ ~input.nested
    /\ parsed.ok
    /\ SizeOf = <<1>>

\* what the specification lists: nothing left after trimming, no numeric portion (so
\* with a leading sign), a numeric portion that is no decimal number, or a
\* suffix that is not a listed unit
Rejectable(p) ==
    \/ p.sign = <<>> /\ p.num = <<>> /\ p.suf = <<>>
    \/ p.sign # <<>>
    \/ p.num = <<>>
    \/ ~IsDecimal(p.num)
    \/ p.suf \notin ListedSuffixes

\* C9: a size string that is empty after trimming, has no numeric portion or
\* one that is no non-negative decimal number, or has a suffix that is not
\* listed, makes the whole parse fail, on a top-level device as on a child; no
\* byte count comes of it.
C9_InvalidSizeStringRejected ==
    SizeTextRead /\ Rejectable(input.parts) =>
        /\ ~parsed.ok
        /\ parsed.err = "invalid size string"

\* a child's size of "1.5.1" with a listed suffix has failed the parse
C9_Witness ==
    /\ pc = "parsed"
    /\ input.fam = "size"
    /\ input.nested
    /\ input.parts.sign = <<>>
    /\ input.parts.num = <<"1", ".", "5", ".", "1">>
    /\ input.parts.suf = <<"K">>
    /\ ~parsed.ok

NegativeNumber(v) == v.k = "num" /\ v.v.neg /\ v.v.m # <<>>

NumberBeyondU64(v) == v.k = "num" /\ ~v.v.neg /\ Len(v.v.m) + v.v.e > U64Bits

TextBeyondU64 ==
    input.text /\ ValidSizeParts(input.parts) /\ Len(ProductFloor) > U64Bits

\* C10, as the specification has it: a size that is a negative number, or a number or
\* a string whose value is beyond 2^64 - 1, makes the parse fail.
C10_OutOfRangeSizeRejected ==
    /\ pc # "input"
    /\ input.fam = "size"
    /\ NegativeNumber(input.raw) \/ NumberBeyondU64(input.raw) \/ TextBeyondU64
    => ~parsed.ok

(***************************************************************************)
(* Type labels.                                                            *)
(***************************************************************************)
\* the document held one device whose type label is input.label
TypeRead == pc # "input" /\ input.fam = "type"

\* the kind of the device that carried the label
KindOf ==
    IF input.nested THEN parsed.v.blockdevices[1].children.v[1].device_type
    ELSE parsed.v.blockdevices[1].device_type

\* the eleven known labels, each with the kind of its own
KnownKinds ==
    {<<"disk", "Disk">>, <<"part", "Part">>, <<"loop", "Loop">>, <<"raid1", "Raid1">>,
     <<"raid5", "Raid5">>, <<"raid6", "Raid6">>, <<"raid0", "Raid0">>,
     <<"raid10", "Raid10">>, <<"lvm", "Lvm">>, <<"crypt", "Crypt">>, <<"rom", "Rom">>}

\* C11: every type label is classified and none fails the parse: each of the
\* eleven known lowercase labels gives the kind of its own, eleven different
\* kinds, and every other string (unknown, empty, in another letter case)
\* gives the catch-all kind.
C11_TypeClassificationTotal ==
    TypeRead =>
        /\ parsed.ok
        /\ \A lk \in KnownKinds : input.label = lk[1] => KindOf = lk[2]
        /\ (\A lk \in KnownKinds : input.label # lk[1]) => KindOf = "Other"
        /\ \A lk \in KnownKinds : \A other \in KnownKinds :
               lk[2] = other[2] => lk[1] = other[1]

\* a child's label "DISK", the known label in another case, was read as the
\* catch-all kind
C11_Witness ==
    /\ pc = "parsed"
    /\ input.fam = "type"
    /\ input.label = "DISK"
    /\ input.nested
    /\ parsed.ok
    /\ KindOf = "Other"

(***************************************************************************)
(* Documents with a faulty record.                                         *)
(***************************************************************************)
\* the value of an object's member, null when the object has none
MemberValue(object, key) ==
    LET at == {i \in 1..Len(object.v) : object.v[i][1] = key}
    IN  IF at = {} THEN JNull ELSE object.v[First(at)][2]

\* the records of a list of entries and of the children lists below them
RECURSIVE RecordsIn(_)
RecordsIn(entries) ==
    IF entries = <<>> THEN 0
    ELSE (IF Head(entries).k # "obj" THEN 0
          ELSE 1 + (IF MemberValue(Head(entries), "children").k # "arr" THEN 0
                    ELSE RecordsIn(MemberValue(Head(entries), "children").v)))
         + RecordsIn(Tail(entries))

\* the devices of a list and of the children lists below them
RECURSIVE DevicesIn(_)
DevicesIn(devices) ==
    IF devices = <<>> THEN 0
    ELSE 1 + DevicesIn(children_iter(Head(devices))) + DevicesIn(Tail(devices))

Held == pc # "input" /\ parsed # Moved /\ parsed.ok

\* the lists of siblings of a collection: the top-level list and the children
\* list of every device that has one
SiblingLists(devices) ==
    {devices} \cup {DeviceAt(devices, path).children.v :
                       path \in {q \in Paths(devices) : DeviceAt(devices, q).children # None}}

\* C16: in every collection a parse gives, every device at every depth has a
\* name that is not empty, and no two devices of one list of siblings, the
\* top-level list or the children of one parent, have the same name.
C16_NamesNonEmptyAndUniqueAmongSiblings ==
    Held =>
        \A siblings \in SiblingLists(parsed.v.blockdevices) :
            /\ \A i \in 1..Len(siblings) : siblings[i].name # ""
            /\ \A i \in 1..Len(siblings) : \A j \in 1..Len(siblings) :
                   siblings[i].name = siblings[j].name => i = j

(***************************************************************************)
(* Queries on a parsed collection.                                         *)
(***************************************************************************)
\* the query op has returned
Asked(op) == pc = "queried" /\ call.op = op

\* the places of a list at which a device has the name
Named(devices, name) == {i \in 1..Len(devices) : devices[i].name = name}

\* C13: find_by_name returns the first top-level device whose name is exactly
\* the one asked for, and nothing exactly when no top-level device has that
\* name; a device below the top level is never returned.
C13_FindByNameFirstTopLevel ==
    Asked("find_by_name") =>
        LET hits == Named(parsed.v.blockdevices, call.arg)
        IN  /\ call.ret = None <=> hits = {}
            /\ hits # {} =>
                  /\ call.ret.k = "Some"
                  /\ Len(call.ret.v) = 1
                  /\ call.ret.v[1] \in hits
                  /\ \A j \in hits : call.ret.v[1] <= j

\* a name that only a nested device has was asked for and nothing was found
C13_Witness ==
    /\ Asked("find_by_name")
    /\ call.ret = None
    /\ \E path \in Paths(parsed.v.blockdevices) :
           /\ Len(path) > 1
           /\ DeviceAt(parsed.v.blockdevices, path).name = call.arg

\* C14: find_child returns the first direct child whose name is exactly the
\* one asked for, the first of several with that name; nothing when the
\* children are absent, when the list is empty and when no direct child has
\* the name; a grandchild is never returned.
C14_FindChildFirstDirectChild ==
    Asked("find_child") =>
        LET d == DeviceAt(parsed.v.blockdevices, call.at)
            hits == IF d.children = None THEN {} ELSE Named(d.children.v, call.arg)
        IN  /\ call.ret = None <=> hits = {}
            /\ hits # {} =>
                  /\ call.ret.k = "Some"
                  /\ Len(call.ret.v) = 1
                  /\ call.ret.v[1] \in hits
                  /\ \A j \in hits : call.ret.v[1] <= j

\* two direct children have the name asked for and the first was returned
C14_Witness ==
    /\ Asked("find_child")
    /\ has_children(DeviceAt(parsed.v.blockdevices, call.at))
    /\ Cardinality(Named(DeviceAt(parsed.v.blockdevices, call.at).children.v, call.arg)) > 1
    /\ call.ret = Some(<<1>>)

\* the device a query was called on
Callee == DeviceAt(parsed.v.blockdevices, call.at)

\* the places of the entries of a mount list that are not null
Mounted(d) == {i \in 1..Len(d.mountpoints) : d.mountpoints[i] # None}

\* the k-th of a set of places, in increasing order
Kth(places, k) == CHOOSE i \in places : Cardinality({j \in places : j <= i}) = k

\* C15: active_mountpoints returns the entries of the mount list that are not
\* null, in the order of the list and each as often as the list has it;
\* is_mounted is true exactly when there is such an entry, that is when
\* active_mountpoints is not empty.
C15_ActiveMountpointsAreNonNullEntries ==
    /\ Asked("active_mountpoints") =>
           /\ Len(call.ret) = Cardinality(Mounted(Callee))
           /\ \A k \in 1..Len(call.ret) :
                  Some(call.ret[k]) = Callee.mountpoints[Kth(Mounted(Callee), k)]
    /\ Asked("is_mounted") =>
           /\ call.ret <=> Mounted(Callee) # {}
           /\ call.ret <=> active_mountpoints(Callee) # <<>>

\* a list with a null between paths and one path twice gave the three paths
C15_Witness ==
    /\ Asked("active_mountpoints")
    /\ Callee.mountpoints = <<Some("/mnt"), None, Some("/"), Some("/mnt")>>
    /\ call.ret = <<"/mnt", "/", "/mnt">>

(***************************************************************************)
(* The children of a device: none, an empty list, a list of devices.       *)
(***************************************************************************)
\* what a record of the document says of its children
WrittenChildren(record) ==
    LET v == MemberValue(record, "children")
    IN  IF v.k = "null" THEN "absent" ELSE IF v.v = <<>> THEN "empty" ELSE "non-empty"

\* what a device holds
HeldChildren(d) ==
    IF d.children = None THEN "absent"
    ELSE IF d.children.v = <<>> THEN "empty" ELSE "non-empty"

\* the record of the document a path leads to
RECURSIVE RecordAt(_, _)
RecordAt(entries, path) ==
    IF Len(path) = 1 THEN entries[path[1]]
    ELSE RecordAt(MemberValue(entries[path[1]], "children").v, Tail(path))

\* C17: a device holds no children list, an empty one or a non-empty one as
\* its record in the document has none, an empty one or a non-empty one; after
\* serializing and parsing again every device holds what it held before; and
\* has_children is true exactly for a list that is there and is not empty.
C17_ChildrenStatesDistinct ==
    /\ Held =>
           \A path \in Paths(parsed.v.blockdevices) :
               HeldChildren(DeviceAt(parsed.v.blockdevices, path))
                   = WrittenChildren(RecordAt(MemberValue(doc, "blockdevices").v, path))
    /\ pc = "reparsed" /\ parsed.ok =>
           /\ reparsed.ok
           /\ Paths(reparsed.v.blockdevices) = Paths(parsed.v.blockdevices)
           /\ \A path \in Paths(parsed.v.blockdevices) :
                  HeldChildren(DeviceAt(reparsed.v.blockdevices, path))
                      = HeldChildren(DeviceAt(parsed.v.blockdevices, path))
    /\ Asked("has_children") =>
           (call.ret <=> HeldChildren(Callee) = "non-empty")

\* a collection that has gone through serializing and parsing again holds a
\* device with no children list, one with an empty list and one with children
C17_RoundTripWitness ==
    /\ pc = "reparsed"
    /\ reparsed.ok
    /\ \A s \in {"absent", "empty", "non-empty"} :
           \E path \in Paths(reparsed.v.blockdevices) :
               /\ HeldChildren(DeviceAt(reparsed.v.blockdevices, path)) = s
               /\ WrittenChildren(RecordAt(MemberValue(doc, "blockdevices").v, path)) = s

(***************************************************************************)
(* The order of devices.                                                   *)
(***************************************************************************)
\* the entries of the document's list a path leads into: the top-level list
\* for the empty path, else the children of the record at the path
WrittenList(path) ==
    IF path = <<>> THEN MemberValue(doc, "blockdevices").v
    ELSE LET v == MemberValue(RecordAt(MemberValue(doc, "blockdevices").v, path), "children")
         IN  IF v.k = "null" THEN <<>> ELSE v.v

\* the devices of the collection's list a path leads into
HeldList(path) ==
    IF path = <<>> THEN parsed.v.blockdevices
    ELSE LET d == DeviceAt(parsed.v.blockdevices, path)
         IN  IF d.children = None THEN <<>> ELSE d.children.v

\* a device is the one a record of the document describes
Describes(record, d) ==
    /\ MemberValue(record, "name") = JStr(d.name)
    /\ MemberValue(record, "maj:min") = JStr(d.maj_min)

\* the devices are those of the entries, one for one and in their order
InWrittenOrder(entries, devices) ==
    /\ Len(devices) = Len(entries)
    /\ \A k \in 1..Len(devices) : Describes(entries[k], devices[k])

\* C18: the top-level list and every children list of a parsed collection are
\* in the order of the document; iter, into_iter on a reference and into_iter
\* on the collection yield the devices of the top-level list one by one in
\* that order, each once, and then end; children_iter yields the direct
\* children of its device in that order, each once, nothing when the device
\* has no children list, and yields the same again when called again.
C18_NoReordering ==
    /\ Held =>
           \A path \in {<<>>} \cup Paths(parsed.v.blockdevices) :
               InWrittenOrder(WrittenList(path), HeldList(path))
    /\ pc = "iterating" =>
           /\ Len(iter.yielded) <= Len(WrittenList(iter.at))
           /\ \A k \in 1..Len(iter.yielded) :
                  Describes(WrittenList(iter.at)[k], iter.yielded[k])
           /\ iter.done => Len(iter.yielded) = Len(WrittenList(iter.at))
           /\ iter.kind # "into_iter" =>
                  \A k \in 1..Len(iter.yielded) : iter.yielded[k] = HeldList(iter.at)[k]
           /\ iter.kind = "children_iter" /\ iter.done /\ iter.round > 0 =>
                  iter.yielded = iter.before

\* children_iter, called again on a device with three children, has yielded
\* the three once more and ended
C18_Witness ==
    /\ pc = "iterating"
    /\ iter.kind = "children_iter"
    /\ iter.round = 1
    /\ iter.done
    /\ Len(iter.yielded) = 3
    /\ iter.before = iter.yielded

(***************************************************************************)
(* A mount member that is a list.                                          *)
(***************************************************************************)
\* C19: a mount member that is a list of nulls and strings gives a mountpoints
\* list of the same length, with None where the list has null and Some of the
\* string where it has a string, at the same place; no entry is left out,
\* also when every element is null or the list is empty.
C19_ListNormalizedElementWise ==
    MountRead /\ Len(input.members) = 1 /\ IsScalarList(input.members[1][2]) =>
        LET elems == input.members[1][2].v
        IN  /\ parsed.ok
            /\ Len(parsed.v.blockdevices[1].mountpoints) = Len(elems)
            /\ \A i \in 1..Len(elems) :
                   /\ elems[i].k = "null" => parsed.v.blockdevices[1].mountpoints[i] = None
                   /\ elems[i].k = "str" =>
                          parsed.v.blockdevices[1].mountpoints[i] = Some(elems[i].v)

\* a list of a null and a path has been read as None and the path, in order
C19_Witness ==
    /\ pc = "parsed"
    /\ input.fam = "mount"
    /\ input.members = << <<"mountpoints", JArr(<<JNull, JStr("/home")>>)>> >>
    /\ parsed.ok
    /\ parsed.v.blockdevices[1].mountpoints = <<None, Some("/home")>>

(***************************************************************************)
(* get_devices.                                                            *)
(***************************************************************************)
\* the characters whose UTF-8 encoding is made of the bytes lsblk may write
TextChars == {115, 233}

\* the UTF-8 encoding of a character below U+0800
EncodeChar(c) == IF c < 128 THEN <<c>> ELSE <<192 + (c \div 64), 128 + (c % 64)>>

\* the UTF-8 encoding of a text
RECURSIVE Encode(_)
Encode(text) == IF text = <<>> THEN <<>> ELSE EncodeChar(Head(text)) \o Encode(Tail(text))

\* the texts some encoding of which is the byte string
TextsOf(bytes) == {text \in SeqsUpTo(TextChars, Len(bytes)) : Encode(text) = bytes}

Returned == pc = "get_devices" /\ got.at = "returned"

\* what get_devices is to return in the world it ran in, and after which steps
Expected(ret, steps) == got.ret = ret /\ got.steps = steps

\* C20: get_devices returns one outcome, by the first of these that applies:
\* lsblk could not be started, CommandFailed; it ended with another status
\* than the code 0, LsblkError with the text of standard error, and standard
\* output is neither decoded nor parsed, even when it is a good document; its
\* output is not UTF-8, InvalidUtf8; the output does not parse, JsonParse;
\* else the collection.  lsblk is run once and no step is taken twice.
C20_OutcomeOrder ==
    /\ pc = "get_devices" => lsblk.runs <= 1
    /\ Returned =>
           /\ lsblk.runs = 1
           /\ IF ~lsblk.spawn.ok
              THEN Expected(Err([k |-> "CommandFailed", e |-> lsblk.spawn.err]), <<"output">>)
              ELSE IF lsblk.spawn.v.status.code # Some(0)
              THEN /\ got.steps = <<"output", "success">>
                   /\ ~got.ret.ok
                   /\ got.ret.err.k = "LsblkError"
                   /\ \A text \in TextsOf(lsblk.spawn.v.stderr) : got.ret.err.e = text
                   /\ TextsOf(lsblk.spawn.v.stderr) = {} =>
                          ReplacementChar \in Range(got.ret.err.e)
              ELSE IF TextsOf(lsblk.spawn.v.stdout.name) = {}
              THEN /\ got.steps = <<"output", "success", "from_utf8">>
                   /\ ~got.ret.ok
                   /\ got.ret.err.k = "InvalidUtf8"
              ELSE IF lsblk.spawn.v.stdout.shape # "document"
              THEN /\ got.steps = <<"output", "success", "from_utf8", "parse_lsblk">>
                   /\ ~got.ret.ok
                   /\ got.ret.err.k = "JsonParse"
              ELSE /\ got.steps = <<"output", "success", "from_utf8", "parse_lsblk">>
                   /\ got.ret.ok
                   /\ Len(got.ret.v.blockdevices) = 1
                   /\ got.ret.v.blockdevices[1].name \in TextsOf(lsblk.spawn.v.stdout.name)

\* lsblk ended with the code 1, a good document in its output and a text in
\* its standard error, and get_devices returned LsblkError with that text
C20_Witness ==
    /\ Returned
    /\ lsblk.spawn.ok
    /\ lsblk.spawn.v.status.code = Some(1)
    /\ lsblk.spawn.v.stdout = [shape |-> "document", name |-> <<115, 115>>]
    /\ lsblk.spawn.v.stderr = <<195, 169>>
    /\ got.ret = Err([k |-> "LsblkError", e |-> <<233>>])
====
